---- MODULE Spec2Model ----
(***************************************************************************)
(* Model of the /servo request handler of src/main.rs: a POST body of the  *)
(* form ({angle},{pause},)*{angle} is split and parsed into a Vec<u32>,    *)
(* and the servo behind an Arc<Mutex<LedcDriver>> is driven through the    *)
(* listed angles with a sleep between two consecutive duty writes.         *)
(*                                                                         *)
(* u32 values are kept at their full 32-bit width as pairs <<hi, lo>> of   *)
(* 16-bit limbs, so that the parser's range check and the multiplication   *)
(* in interpolate behave as in the program.  Rust evaluates `*` on u32     *)
(* with a panic on overflow when the build has overflow checks (the dev    *)
(* profile) and with wrap-around otherwise (the release profile); the      *)
(* variable overflow_checks is the profile of the running build.           *)
(*                                                                         *)
(* A panic (a failed unwrap, an overflow) unwinds the handler; a           *)
(* MutexGuard dropped during unwinding poisons the std Mutex.              *)
(***************************************************************************)
EXTENDS Integers, Sequences, FiniteSets, TLC

\* ------------------------------------------------------------- bounds ---
NumReqs == 2         \* requests in flight
MaxBits == 14        \* timer resolutions drawn for the interpolation checks

\* ---------------------------------------------------------- u32 limbs ---
Limb == 65536

U32(n) == <<n \div Limb, n % Limb>>

Less32(p, q) == p[1] < q[1] \/ (p[1] = q[1] /\ p[2] < q[2])

\* ------------------------------------------------------------ payloads ---
Digits == {"0", "1", "2", "3", "4", "5", "6", "7", "8", "9"}

DigitVal(c) ==
    CASE c = "0" -> 0 [] c = "1" -> 1 [] c = "2" -> 2 [] c = "3" -> 3
      [] c = "4" -> 4 [] c = "5" -> 5 [] c = "6" -> 6 [] c = "7" -> 7
      [] c = "8" -> 8 [] c = "9" -> 9

\* request bodies, one character per element
P_90_500_0_500_180 ==
    <<"9","0",",","5","0","0",",","0",",","5","0","0",",","1","8","0">>
P_0 == <<"0">>
P_90_500 == <<"9","0",",","5","0","0">>
P_empty == <<>>
P_90_comma == <<"9","0",",">>
P_abc == <<"a","b","c">>
P_0_5_x == <<"0",",","5",",","x">>
P_181 == <<"1","8","1">>
P_plus90 == <<"+","9","0">>
P_2622081 == <<"2","6","2","2","0","8","1">>
P_u32over == <<"4","2","9","4","9","6","7","2","9","6">>

Payloads ==
    { P_90_500_0_500_180, P_0, P_90_500, P_empty, P_90_comma, P_abc,
      P_0_5_x, P_181, P_plus90, P_2622081, P_u32over }

\* ------------------------------------------------------------- parsing ---
\* str::split(","): the pieces between the commas; always at least one piece
RECURSIVE SplitFrom(_, _, _, _)
SplitFrom(s, k, cur, acc) ==
    IF k > Len(s) THEN Append(acc, cur)
    ELSE IF s[k] = "," THEN SplitFrom(s, k + 1, <<>>, Append(acc, cur))
    ELSE SplitFrom(s, k + 1, Append(cur, s[k]), acc)

split(s) == SplitFrom(s, 1, <<>>, <<>>)

\* the digit loop of u32::from_str: checked acc * 10 + digit
RECURSIVE ParseDigits(_, _, _)
ParseDigits(t, k, acc) ==
    IF k > Len(t) THEN [ok |-> TRUE, val |-> acc]
    ELSE IF t[k] \notin Digits THEN [ok |-> FALSE, val |-> <<0, 0>>]
    ELSE LET lo == acc[2] * 10 + DigitVal(t[k])
             hi == acc[1] * 10 + (lo \div Limb)
         IN  IF hi >= Limb THEN [ok |-> FALSE, val |-> <<0, 0>>]
             ELSE ParseDigits(t, k + 1, <<hi, lo % Limb>>)

\* variant: an empty token reads as 0
parse_empty_is_zero(t) ==
    LET digits == IF Len(t) > 0 /\ t[1] = "+" THEN Tail(t) ELSE t
    IN  ParseDigits(digits, 1, <<0, 0>>)

\* str::parse::<u32>: an optional "+" and then one or more digits, <= u32::MAX
parse(t) ==
    LET digits == IF Len(t) > 0 /\ t[1] = "+" THEN Tail(t) ELSE t
    IN  IF Len(digits) = 0 THEN [ok |-> FALSE, val |-> <<0, 0>>]
        ELSE ParseDigits(digits, 1, <<0, 0>>)

\* split(",").map(|s| s.parse::<u32>().unwrap()).collect()
ParsedTokens(s) == [k \in 1..Len(split(s)) |-> parse(split(s)[k])]

ParseOk(s) == \A k \in 1..Len(split(s)) : ParsedTokens(s)[k].ok

times_angles_of(s) == [k \in 1..Len(split(s)) |-> ParsedTokens(s)[k].val]

VARIABLES
    overflow_checks,  \* build profile: TRUE when u32 overflow panics
    min, max,         \* the calibrated duty range captured by the closure
    servo,            \* the Mutex: [locked, poisoned]
    duty,             \* the duty last handed to LedcDriver::set_duty
    pc,               \* per request: position in the handler
    body,             \* per request: the request body read
    times_angles,     \* per request: the parsed Vec<u32>
    i,                \* per request: the loop variable
    guard,            \* per request: a live MutexGuard temporary
    panicked,         \* per request: "none" or the site of the panic
    log,              \* per request: duty writes and sleeps done, in order
    writes,           \* all duty writes on the actuator, in order
    calc              \* the interpolation under evaluation (SpecInterp)

vars == <<overflow_checks, min, max, servo, duty, pc, body, times_angles, i,
          guard, panicked, log, writes, calc>>

Reqs == 1..NumReqs

\* ------------------------------------------------------- interpolation ---
\* variant: angle * max / 180 + min
interpolate_no_sub(angle, mn, mx) ==
    LET d == mx
        pl == angle[2] * d
        ph == angle[1] * d + (pl \div Limb)
        overflow == ph >= Limb
        wh == ph % Limb
        wl == pl % Limb
        quot == (wh \div 180) * Limb + ((wh % 180) * Limb + wl) \div 180
    IN  [panic |-> overflow /\ overflow_checks, val |-> quot + mn]

\* angle * (max - min) / 180 + min on u32; mx - mn < 2^15 keeps the limb
\* products within the 32-bit integers of TLC
interpolate(angle, mn, mx) ==
    LET d == mx - mn
        pl == angle[2] * d
        ph == angle[1] * d + (pl \div Limb)
        overflow == ph >= Limb
        wh == ph % Limb
        wl == pl % Limb
        quot == (wh \div 180) * Limb + ((wh % 180) * Limb + wl) \div 180
    IN  [panic |-> overflow /\ overflow_checks, val |-> quot + mn]

\* LedcDriver::get_max_duty() for Resolution::Bits14
DutyTotals == {16383, 16384}

NoCalc == [state |-> "off"]

Init ==
    /\ overflow_checks \in BOOLEAN
    /\ \E max_duty \in DutyTotals :
          /\ min = max_duty \div 40
          /\ max = max_duty \div 8
    /\ servo = [locked |-> FALSE, poisoned |-> FALSE]
    /\ duty = 0
    /\ pc = [r \in Reqs |-> "idle"]
    /\ body = [r \in Reqs |-> <<>>]
    /\ times_angles = [r \in Reqs |-> <<>>]
    /\ i = [r \in Reqs |-> 0]
    /\ guard = [r \in Reqs |-> FALSE]
    /\ panicked = [r \in Reqs |-> "none"]
    /\ log = [r \in Reqs |-> <<>>]
    /\ writes = <<>>
    /\ calc = NoCalc

DutyEvent(d) == [op |-> "set_duty", duty |-> d, ms |-> <<0, 0>>]
SleepEvent(w) == [op |-> "sleep", duty |-> 0, ms |-> w]

\* lines 112-120: read the body and parse it; any bad token panics here
Receive(r) ==
    /\ pc[r] = "idle"
    /\ \E s \in Payloads :
          /\ body' = [body EXCEPT ![r] = s]
          /\ IF ParseOk(s)
             THEN /\ times_angles' = [times_angles EXCEPT ![r] = times_angles_of(s)]
                  /\ pc' = [pc EXCEPT ![r] = "lock0"]
                  /\ UNCHANGED panicked
             ELSE /\ pc' = [pc EXCEPT ![r] = "panicked"]
                  /\ panicked' = [panicked EXCEPT ![r] = "parse"]
                  /\ UNCHANGED times_angles
    /\ UNCHANGED <<overflow_checks, min, max, servo, duty, i, guard, log,
                   writes, calc>>

\* variant: lock() that does not wait for the holder
LockUnwrap_no_wait(r, at, next) ==
    /\ pc[r] = at
    /\ IF servo.poisoned
       THEN /\ pc' = [pc EXCEPT ![r] = "panicked"]
            /\ panicked' = [panicked EXCEPT ![r] = "lock"]
            /\ UNCHANGED <<servo, guard>>
       ELSE /\ pc' = [pc EXCEPT ![r] = next]
            /\ servo' = [servo EXCEPT !.locked = TRUE]
            /\ guard' = [guard EXCEPT ![r] = TRUE]
            /\ UNCHANGED panicked
    /\ UNCHANGED <<overflow_checks, min, max, duty, body, times_angles, i,
                   log, writes, calc>>

\* servo.lock().unwrap(): blocks while the mutex is held; a poisoned mutex
\* makes lock() return Err, and unwrap() then panics and drops the guard
LockUnwrap(r, at, next) ==
    /\ pc[r] = at
    /\ ~servo.locked
    /\ IF servo.poisoned
       THEN /\ pc' = [pc EXCEPT ![r] = "panicked"]
            /\ panicked' = [panicked EXCEPT ![r] = "lock"]
            /\ UNCHANGED <<servo, guard>>
       ELSE /\ pc' = [pc EXCEPT ![r] = next]
            /\ servo' = [servo EXCEPT !.locked = TRUE]
            /\ guard' = [guard EXCEPT ![r] = TRUE]
            /\ UNCHANGED panicked
    /\ UNCHANGED <<overflow_checks, min, max, duty, body, times_angles, i,
                   log, writes, calc>>

\* variant: the guard is leaked by the panic and the mutex stays locked
PanicWithGuard_leak(r, site) ==
    /\ pc' = [pc EXCEPT ![r] = "panicked"]
    /\ panicked' = [panicked EXCEPT ![r] = site]
    /\ UNCHANGED <<servo, guard>>

\* a panic while the guard temporary is alive: the guard is dropped during
\* unwinding, which unlocks and poisons the mutex
PanicWithGuard(r, site) ==
    /\ pc' = [pc EXCEPT ![r] = "panicked"]
    /\ panicked' = [panicked EXCEPT ![r] = site]
    /\ servo' = [locked |-> FALSE, poisoned |-> TRUE]
    /\ guard' = [guard EXCEPT ![r] = FALSE]

\* .set_duty(interpolate(angle, min, max)).unwrap(); the guard temporary is
\* dropped at the end of the statement
SetDutyUnwrap(r, at, angle, next, nexti) ==
    /\ pc[r] = at
    /\ guard[r]
    /\ LET res == interpolate(angle, min, max)
       IN  IF res.panic
           THEN /\ PanicWithGuard(r, "overflow")
                /\ UNCHANGED <<duty, i, log, writes>>
           ELSE \/ /\ duty' = res.val
                   /\ writes' = Append(writes, [req |-> r, duty |-> res.val])
                   /\ log' = [log EXCEPT ![r] = Append(@, DutyEvent(res.val))]
                   /\ servo' = [servo EXCEPT !.locked = FALSE]
                   /\ guard' = [guard EXCEPT ![r] = FALSE]
                   /\ pc' = [pc EXCEPT ![r] = next]
                   /\ i' = [i EXCEPT ![r] = nexti]
                   /\ UNCHANGED panicked
                \/ /\ PanicWithGuard(r, "set_duty")
                   /\ UNCHANGED <<duty, i, log, writes>>
    /\ UNCHANGED <<overflow_checks, min, max, body, times_angles, calc>>

\* variant: 0..times_angles.len() / 2
LoopBound_no_minus(r) == Len(times_angles[r]) \div 2

\* for i in 0..(times_angles.len() - 1) / 2
LoopBound(r) == (Len(times_angles[r]) - 1) \div 2

\* variant: an inclusive range 0..=(len - 1) / 2
AfterWrite_inclusive(r, k) == IF k <= LoopBound(r) THEN "sleep" ELSE "done"

AfterWrite(r, k) == IF k < LoopBound(r) THEN "sleep" ELSE "done"

\* lines 121-123
Lock0(r) == LockUnwrap(r, "lock0", "duty0")

\* lines 124-126, then entry into the loop of line 127
SetDuty0(r) ==
    SetDutyUnwrap(r, "duty0", times_angles[r][1], AfterWrite(r, 0), 0)

\* lines 128-130
Sleep(r) ==
    /\ pc[r] = "sleep"
    /\ LET wait_time == times_angles[r][i[r] * 2 + 2]
       IN  log' = [log EXCEPT ![r] = Append(@, SleepEvent(wait_time))]
    /\ pc' = [pc EXCEPT ![r] = "lock"]
    /\ UNCHANGED <<overflow_checks, min, max, servo, duty, body, times_angles,
                   i, guard, panicked, writes, calc>>

\* lines 133-135
Lock(r) == LockUnwrap(r, "lock", "duty")

\* lines 131-137, then the next iteration or Ok(())
SetDuty(r) ==
    SetDutyUnwrap(r, "duty", times_angles[r][i[r] * 2 + 3],
                  AfterWrite(r, i[r] + 1), i[r] + 1)

Next ==
    \E r \in Reqs :
        \/ Receive(r)
        \/ Lock0(r)
        \/ SetDuty0(r)
        \/ Sleep(r)
        \/ Lock(r)
        \/ SetDuty(r)

Spec == Init /\ [][Next]_vars

\* ---------------------------------------- interpolate as a pure function ---
\* LedcDriver::get_max_duty() over the timer resolutions of the LEDC driver
ResolutionTotals ==
    UNION { {2^b - 1, 2^b} : b \in 1..MaxBits }

\* angles a parsed timeline can carry: any u32
InterpAngles ==
    { U32(0), U32(1), U32(90), U32(179), U32(180), U32(181), U32(2620480),
      U32(2620481), U32(2622080), U32(2622081), <<65535, 65535>> }

NoResult == [panic |-> FALSE, val |-> 0]

InitInterp ==
    /\ overflow_checks \in BOOLEAN
    /\ \E max_duty \in ResolutionTotals :
          /\ min = max_duty \div 40
          /\ max = max_duty \div 8
    /\ servo = [locked |-> FALSE, poisoned |-> FALSE]
    /\ duty = 0
    /\ pc = [r \in Reqs |-> "idle"]
    /\ body = [r \in Reqs |-> <<>>]
    /\ times_angles = [r \in Reqs |-> <<>>]
    /\ i = [r \in Reqs |-> 0]
    /\ guard = [r \in Reqs |-> FALSE]
    /\ panicked = [r \in Reqs |-> "none"]
    /\ log = [r \in Reqs |-> <<>>]
    /\ writes = <<>>
    /\ \E a1 \in InterpAngles, a2 \in InterpAngles :
          calc = [state |-> "ready", a1 |-> a1, a2 |-> a2,
                  r1 |-> NoResult, r2 |-> NoResult]

\* interpolate(a1, min, max); an overflow panic ends the evaluation
EvalFirst ==
    /\ calc.state = "ready"
    /\ LET res == interpolate(calc.a1, min, max)
       IN  calc' = [calc EXCEPT !.r1 = res,
                      !.state = IF res.panic THEN "panicked" ELSE "first"]
    /\ UNCHANGED <<overflow_checks, min, max, servo, duty, pc, body,
                   times_angles, i, guard, panicked, log, writes>>

\* interpolate(a2, min, max)
EvalSecond ==
    /\ calc.state = "first"
    /\ LET res == interpolate(calc.a2, min, max)
       IN  calc' = [calc EXCEPT !.r2 = res,
                      !.state = IF res.panic THEN "panicked" ELSE "both"]
    /\ UNCHANGED <<overflow_checks, min, max, servo, duty, pc, body,
                   times_angles, i, guard, panicked, log, writes>>

NextInterp == EvalFirst \/ EvalSecond

SpecInterp == InitInterp /\ [][NextInterp]_vars

\* ------------------------------------------------------------ properties ---
Received(r) == pc[r] # "idle"

Terminated(r) == pc[r] \in {"done", "panicked"}

\* a token that is not a decimal numeral: no digit at all, or a character
\* that is not a digit after the optional sign
NonNumeric(t) ==
    LET digits == IF Len(t) > 0 /\ t[1] = "+" THEN Tail(t) ELSE t
    IN  Len(digits) = 0 \/ \E k \in 1..Len(digits) : digits[k] \notin Digits

\* bodies with a non-numeric token at some position
NonNumericBodies ==
    {s \in Payloads : \E k \in 1..Len(split(s)) : NonNumeric(split(s)[k])}

\* bodies that are a list of u32 tokens of odd length, of even length
OddBodies == {s \in Payloads : ParseOk(s) /\ Len(split(s)) % 2 = 1}
EvenBodies == {s \in Payloads : ParseOk(s) /\ Len(split(s)) % 2 = 0}

OddNumeric(r) == Received(r) /\ body[r] \in OddBodies

HasNonNumeric(r) == Received(r) /\ body[r] \in NonNumericBodies

WritesOf(r) == SelectSeq(writes, LAMBDA w : w.req = r)

\* the writes and holds the timeline t asks for, in order
RECURSIVE ExpectedFrom(_, _)
ExpectedFrom(t, k) ==
    IF 2 * k + 1 > Len(t) THEN <<>>
    ELSE <<SleepEvent(t[2 * k]), DutyEvent(interpolate(t[2 * k + 1], min, max).val)>>
         \o ExpectedFrom(t, k + 1)

Expected(t) == <<DutyEvent(interpolate(t[1], min, max).val)>> \o ExpectedFrom(t, 1)

\* C1: the duty writes of two requests with valid timelines are never
\* interleaved: no write of one request falls between two writes of another
C1_NoInterleaving ==
    \A a \in 1..Len(writes), b \in 1..Len(writes), c \in 1..Len(writes) :
        ( /\ a < b /\ b < c
          /\ writes[a].req = writes[c].req
          /\ OddNumeric(writes[a].req) /\ OddNumeric(writes[b].req) )
        => writes[b].req = writes[a].req

\* C2: a request sleeping in a hold is the holder of the actuator lock
C2_LockHeldWhileSleeping ==
    \A r \in Reqs : pc[r] = "sleep" => (guard[r] /\ servo.locked)

\* C3: a request with an odd list of u32 tokens that meets no hardware fault
\* and no poisoned lock finishes with exactly the writes and holds of its
\* timeline, in order
C3_TimelineExecuted ==
    \A r \in Reqs :
        (OddNumeric(r) /\ Terminated(r) /\ panicked[r] \notin {"set_duty", "lock"})
        => (pc[r] = "done" /\ log[r] = Expected(times_angles[r]))

\* C4: a body with an even number of u32 tokens is rejected: the request
\* writes no duty, holds nothing and does not succeed
C4_EvenRejected ==
    \A r \in Reqs :
        (Received(r) /\ body[r] \in EvenBodies)
        => (log[r] = <<>> /\ WritesOf(r) = <<>> /\ pc[r] # "done")

C6_FailuresContained ==
    \A r \in Reqs : OddNumeric(r) => panicked[r] # "lock"

\* C7: at most one request holds the lock, the lock is held exactly when a
\* request holds it, and every duty write is made by the holder
C7_SingleWriter ==
    /\ [](/\ Cardinality({r \in Reqs : guard[r]}) <= 1
          /\ servo.locked <=> (\E r \in Reqs : guard[r])
          /\ Cardinality({r \in Reqs : pc[r] \in {"duty0", "duty"}}) <= 1)
    /\ [][Len(writes') > Len(writes)
            => /\ guard[writes'[Len(writes')].req]
               /\ \A q \in Reqs : guard[q] => q = writes'[Len(writes')].req]_vars

C7_Witness ==
    \E r \in Reqs, q \in Reqs :
        /\ r # q /\ guard[r] /\ pc[q] \in {"lock0", "lock"}
        /\ WritesOf(r) # <<>> /\ WritesOf(q) # <<>>

\* C8: every duty written to the actuator lies in [min, max]
C8_DutyInRange ==
    \A k \in 1..Len(writes) : min <= writes[k].duty /\ writes[k].duty <= max

\* C9: interpolate(0) is min and interpolate(180) is max, exactly, for every
\* calibrated range
C9_Endpoints ==
    calc.state \in {"first", "both", "panicked"}
    => /\ calc.a1 = U32(0) => calc.r1 = [panic |-> FALSE, val |-> min]
       /\ calc.a1 = U32(180) => calc.r1 = [panic |-> FALSE, val |-> max]

C9_Witness ==
    /\ calc.state = "first" /\ calc.a1 = U32(180)
    /\ min = 409 /\ max = 2047 /\ calc.r1.val = 2047

\* C10: interpolate is monotonic: a1 < a2 implies
\* interpolate(a1) <= interpolate(a2)
C10_Monotonic ==
    (calc.state = "both" /\ Less32(calc.a1, calc.a2))
    => calc.r1.val <= calc.r2.val

\* bodies that are one angle of the domain [0, 180]
SingleAngleBodies ==
    {s \in Payloads : /\ ParseOk(s) /\ Len(split(s)) = 1
                      /\ ~Less32(U32(180), times_angles_of(s)[1])}

MathDuty(angle, mn, mx) ==
    LET d == mx - mn
        pl == angle[2] * d
        ph == angle[1] * d + (pl \div Limb)
        ql == ((ph % 180) * Limb + (pl % Limb)) \div 180
        lo == ql + mn
    IN  <<(ph \div 180) + (lo \div Limb), lo % Limb>>

\* C13: interpolate never overflows: for every u32 angle and every range
\* min = M / 40, max = M / 8 it returns, without a panic, the mathematical
\* value floor(angle * (max - min) / 180) + min
C13_NoOverflow ==
    calc.state \in {"first", "both", "panicked"}
    => /\ ~calc.r1.panic
       /\ U32(calc.r1.val) = MathDuty(calc.a1, min, max)

\* bodies of u32 tokens whose angles are below 2^16, so that no product
\* angle * (max - min) overflows
SmallAngleBodies ==
    {s \in Payloads :
        /\ ParseOk(s)
        /\ \A k \in 1..Len(split(s)) : k % 2 = 1 => times_angles_of(s)[k][1] = 0}

DutiesOf(events) ==
    [k \in 1..Len(SelectSeq(events, LAMBDA e : e.op = "set_duty")) |->
        SelectSeq(events, LAMBDA e : e.op = "set_duty")[k].duty]

\* C14: the range keeps its startup value, and the duties a request writes
\* are a function of its own body and the range only: whatever ran before
\* or concurrently, a request that ends without a failure of its own
\* set_duty has written exactly the duties of its timeline
C14_RequestsIndependent ==
    /\ \E max_duty \in DutyTotals : min = max_duty \div 40 /\ max = max_duty \div 8
    /\ \A r \in Reqs :
          (Terminated(r) /\ body[r] \in SmallAngleBodies /\ panicked[r] # "set_duty")
          => DutiesOf(log[r]) = DutiesOf(Expected(times_angles[r]))

\* bodies whose tokens all parse as u32
NumericBodies == {s \in Payloads : ParseOk(s)}

\* C15: when every request carries an all-numeric body and no set_duty
\* fails, no request ever panics, and once all requests have ended they
\* have all returned Ok(()) and the mutex is unlocked
C15_AllSucceed ==
    ( /\ \A r \in Reqs : Received(r) => body[r] \in NumericBodies
      /\ \A r \in Reqs : panicked[r] # "set_duty" )
    => /\ \A r \in Reqs : panicked[r] = "none"
       /\ (\A r \in Reqs : Terminated(r))
             => (~servo.locked /\ \A r \in Reqs : pc[r] = "done")

NumWrites(r) == Len(SelectSeq(log[r], LAMBDA e : e.op = "set_duty"))
NumSleeps(r) == Len(SelectSeq(log[r], LAMBDA e : e.op = "sleep"))

\* C16: a request with k u32 tokens, odd or even, that meets no hardware
\* fault and no poisoned lock ends with exactly 1 + (k - 1) / 2 duty writes
\* and (k - 1) / 2 holds
C16_WriteAndHoldCounts ==
    \A r \in Reqs :
        ( /\ Terminated(r) /\ body[r] \in NumericBodies
          /\ panicked[r] \notin {"set_duty", "lock"} )
        => /\ NumWrites(r) = 1 + (Len(split(body[r])) - 1) \div 2
           /\ NumSleeps(r) = (Len(split(body[r])) - 1) \div 2

\* the number of pieces of every body
TokenCount == [s \in Payloads |-> Len(split(s))]

\* C17: the handler never indexes outside times_angles: every body splits
\* into at least one token, a parsed list is not empty, and in every loop
\* iteration both 2i + 1 and 2i + 2 are at most len - 1
C17_IndicesInBounds ==
    /\ \A s \in Payloads : TokenCount[s] >= 1
    /\ \A r \in Reqs :
          /\ pc[r] \in {"lock0", "duty0", "sleep", "lock", "duty", "done"}
             => (Len(times_angles[r]) >= 1 /\ Len(times_angles[r]) = TokenCount[body[r]])
          /\ pc[r] \in {"sleep", "lock", "duty"}
             => /\ i[r] >= 0
                /\ 2 * i[r] + 1 <= Len(times_angles[r]) - 1
                /\ 2 * i[r] + 2 <= Len(times_angles[r]) - 1

C17_Witness ==
    \E r \in Reqs, q \in Reqs :
        /\ pc[r] = "duty" /\ i[r] = 1 /\ Len(times_angles[r]) = 5
        /\ q # r /\ body[q] = P_90_500 /\ pc[q] = "done"

====
